---- MODULE Spec2Model ----
(***************************************************************************)
(* Model of the operator-derive generator of stellare-types                *)
(* (derive/src/lib.rs): the four derive entry points, the two generation   *)
(* functions bc_ops (broadcast) and cw_ops (componentwise), the generic    *)
(* parameter printer, and the field classifier ComponentsIter.             *)
(*                                                                         *)
(* One behaviour is one invocation of one entry point on one declaration;  *)
(* under SpecPair a second invocation (peer) runs beside it, and SpecFair  *)
(* adds the fairness under which an invocation runs to its end.            *)
(* Token streams are modelled as structured values: a where-clause is a    *)
(* sequence of predicates, a predicate carries a sequence of bounds, an    *)
(* implementation block is a record of its parts.  An Option is a sequence *)
(* of length 0 (None) or 1 (Some).                                         *)
(***************************************************************************)
EXTENDS Integers, Sequences, FiniteSets, TLC

VARIABLES
    entry,            \* the derive entry point that was invoked
    ast,              \* the parsed DeriveInput
    pc,               \* position of the invocation in bc_ops / cw_ops
    impl_generics,    \* tokens produced by generics(&ast)
    impls,            \* the vector of implementation blocks built so far
    opi,              \* 1-based position of the `for op in ops` loop
    where_clause,     \* Option: the value block's augmented where-clause
    scalar_type,      \* Option: the captured operand type (bc_ops only)
    ass_where_clause, \* Option: the assignment block's augmented where-clause
    op,               \* entries of the value constructor for this operator
    ass_op,           \* statements of the assignment body for this operator
    iter,             \* the ComponentsIter: fields consumed and field_idx
    panic,            \* Option: the panic that aborted the invocation
    output,           \* Option: the token stream returned to the compiler
    peer              \* Option: a second invocation running concurrently

vars == <<entry, ast, pc, impl_generics, impls, opi, where_clause, scalar_type,
          ass_where_clause, op, ass_op, iter, panic, output, peer>>

(***************************************************************************)
(* Bounds of the explored inputs.                                          *)
(***************************************************************************)
MaxBounds == 2
MaxPreds == 2
MaxFields == 2
MaxParams == 2

None == <<>>
Some(x) == <<x>>

(***************************************************************************)
(* Entry points and the operator catalogue.                                *)
(***************************************************************************)
BitOps == <<"BitAnd", "BitOr", "BitXor">>
ArithmeticOps == <<"Add", "Sub", "Mul", "Div">>

EntryPoints == {"bc_bitops", "bc_arithmetic", "cw_bitops", "cw_arithmetic"}

\* the operator list each entry point passes to bc_ops / cw_ops
Ops(e) ==
    IF e \in {"bc_bitops", "cw_bitops"} THEN BitOps ELSE ArithmeticOps

\* TRUE when the entry point calls bc_ops, FALSE when it calls cw_ops
IsBroadcast(e) == e \in {"bc_bitops", "bc_arithmetic"}

AllOps == {"BitAnd", "BitOr", "BitXor", "Add", "Sub", "Mul", "Div"}

\* str::to_lowercase on the operator names
ToLowercase(o) ==
    CASE o = "BitAnd" -> "bitand"
      [] o = "BitOr"  -> "bitor"
      [] o = "BitXor" -> "bitxor"
      [] o = "Add"    -> "add"
      [] o = "Sub"    -> "sub"
      [] o = "Mul"    -> "mul"
      [] o = "Div"    -> "div"

\* format_ident!("{}Assign", trait_ident)
AssTraitIdent(o) ==
    CASE o = "BitAnd" -> "BitAndAssign"
      [] o = "BitOr"  -> "BitOrAssign"
      [] o = "BitXor" -> "BitXorAssign"
      [] o = "Add"    -> "AddAssign"
      [] o = "Sub"    -> "SubAssign"
      [] o = "Mul"    -> "MulAssign"
      [] o = "Div"    -> "DivAssign"

\* format_ident!("{}_assign", func_ident)
AssFuncIdent(f) ==
    CASE f = "bitand" -> "bitand_assign"
      [] f = "bitor"  -> "bitor_assign"
      [] f = "bitxor" -> "bitxor_assign"
      [] f = "add"    -> "add_assign"
      [] f = "sub"    -> "sub_assign"
      [] f = "mul"    -> "mul_assign"
      [] f = "div"    -> "div_assign"

(***************************************************************************)
(* Bounds, predicates, where-clauses.                                      *)
(***************************************************************************)
TraitBound(path, out) == [kind |-> "trait", path |-> path, output |-> out]
LifetimeBound(l) == [kind |-> "lifetime", path |-> <<l>>, output |-> None]

ScalarB == TraitBound(<<"Scalar">>, None)
QualScalarB == TraitBound(<<"math", "Scalar">>, None)
CopyB == TraitBound(<<"Copy">>, None)
StaticB == LifetimeBound("'static")

\* the bounds a declaration's predicates are written with
BoundAlphabet == {ScalarB, QualScalarB, CopyB, StaticB}

TypePredicate(ty, bs) == [kind |-> "type", bounded_ty |-> ty, bounds |-> bs]
LifetimePredicate(l, bs) == [kind |-> "lifetime", bounded_ty |-> l, bounds |-> bs]

\* the closure of find_map at lines 40-46: Some(is the last segment Scalar)
\* for a trait bound, None for any other bound
MarkerProbe(b) ==
    IF b.kind = "trait"
    THEN IF Len(b.path) > 0 THEN Some(b.path[Len(b.path)] = "Scalar") ELSE None
    ELSE None

\* Iterator::find_map: the first Some the closure returns, else None
RECURSIVE FindMapProbe(_)
FindMapProbe(bs) ==
    IF bs = <<>> THEN None
    ELSE IF MarkerProbe(Head(bs)) # None THEN MarkerProbe(Head(bs))
    ELSE FindMapProbe(Tail(bs))

\* has_scalar.is_some_and(|e| e)
HasScalar(bs) ==
    LET has_scalar == FindMapProbe(bs)
    IN  has_scalar # None /\ has_scalar[1]

\* parse_quote!(std::ops::#trait_ident<Output = #path>)
ValueBound(trait_ident, path) ==
    TraitBound(<<"std", "ops", trait_ident>>, Some(path))

\* parse_quote!(std::ops::#ass_trait_ident)
AssBound(ass_trait_ident) ==
    TraitBound(<<"std", "ops", ass_trait_ident>>, None)

\* one where-clause shared by both blocks: either bound lands in the set
\* built for the value block
AugmentValue_Shared(preds, trait_ident) ==
    [i \in 1..Len(preds) |->
        IF preds[i].kind = "type" /\ HasScalar(preds[i].bounds)
        THEN [preds[i] EXCEPT !.bounds =
                 Append(Append(@, ValueBound(trait_ident, preds[i].bounded_ty)),
                        AssBound(AssTraitIdent(trait_ident)))]
        ELSE preds[i]]

\* the loop over the predicates of the value where-clause
AugmentValue(preds, trait_ident) ==
    [i \in 1..Len(preds) |->
        IF preds[i].kind = "type" /\ HasScalar(preds[i].bounds)
        THEN [preds[i] EXCEPT !.bounds =
                 Append(@, ValueBound(trait_ident, preds[i].bounded_ty))]
        ELSE preds[i]]

\* scalar_type falling back to the first predicate when nothing matched
CaptureScalar_Fallback(preds, acc) ==
    LET matching == {i \in 1..Len(preds) :
                        preds[i].kind = "type" /\ HasScalar(preds[i].bounds)}
    IN  IF matching # {}
        THEN Some(preds[CHOOSE i \in matching :
                            \A h \in matching : h <= i].bounded_ty)
        ELSE IF preds # <<>> THEN Some(preds[1].bounded_ty)
        ELSE acc

\* scalar_type after the loop: the bounded type of the last matching predicate
RECURSIVE CaptureScalar(_, _)
CaptureScalar(preds, acc) ==
    IF preds = <<>> THEN acc
    ELSE CaptureScalar(Tail(preds),
            IF Head(preds).kind = "type" /\ HasScalar(Head(preds).bounds)
            THEN Some(Head(preds).bounded_ty)
            ELSE acc)

\* the loop over the predicates of the assignment where-clause
AugmentAssign(preds, ass_trait_ident) ==
    [i \in 1..Len(preds) |->
        IF preds[i].kind = "type" /\ HasScalar(preds[i].bounds)
        THEN [preds[i] EXCEPT !.bounds = Append(@, AssBound(ass_trait_ident))]
        ELSE preds[i]]

(***************************************************************************)
(* Generic parameters.                                                     *)
(***************************************************************************)
GenericParam(k, id, bs, d) ==
    [kind |-> k, ident |-> id, colon_token |-> (bs # <<>> \/ k = "const"),
     bounds |-> bs,
     default |-> d]

\* generics(&ast): the parameter list printed on every impl block
GenericsParam(param) ==
    CASE param.kind = "type" ->
            \* quote! { #ident #bounds }
            [kind |-> "type", ident |-> param.ident, colon_token |-> FALSE,
             bounds |-> param.bounds, default |-> None]
      [] param.kind = "lifetime" -> param   \* quote! { #lt }
      [] param.kind = "const" -> param      \* quote! { #c }

generics(a) ==
    [i \in 1..Len(a.generics.params) |-> GenericsParam(a.generics.params[i])]

(***************************************************************************)
(* Fields, attributes and the field classifier.                            *)
(***************************************************************************)
Attr(path, k, text) == [path |-> path, arg_kind |-> k, text |-> text]

DocAttr == Attr("doc", "str", "a field")
\* #[op_override("PhantomData")], #[op_override("Default::default()")]
OvPhantom == Attr("op_override", "str", "PhantomData")
OvDefault == Attr("op_override", "str", "Default::default()")
\* #[op_override("(")]: a string literal that does not lex
OvUnlexable == Attr("op_override", "str", "(")
\* #[op_override(3)]: a literal that is not a string
OvNumber == Attr("op_override", "lit", "3")
\* #[op_override(PhantomData)]: an expression that is not a literal
OvPath == Attr("op_override", "expr", "PhantomData")
\* #[op_override]: no argument list, parse_args fails
OvNoArgs == Attr("op_override", "bad", "")
\* #[op_override("1 +")]: a string literal that lexes and is no expression
OvDangling == Attr("op_override", "str", "1 +")

NamedIdent(n) == [name |-> n, index |-> -1]
\* Index::from(field_idx).into_token_stream()
IndexIdent(k) == [name |-> "", index |-> k]

Tokens(text) == [kind |-> "tokens", text |-> text]
CompileError(msg) == [kind |-> "compile_error", text |-> msg]

\* str::parse::<TokenStream2>: fails on text the lexer rejects
LexFails(text) == text \in {"(", ")", "'"}

\* the closure passed to map at lines 258-271
Replacement(a) ==
    IF a.arg_kind = "bad"
    THEN CompileError("parse_args failed")              \* Err(e)
    ELSE IF a.arg_kind = "str"
    THEN IF LexFails(a.text)
         THEN CompileError("cannot parse string into token stream")
         ELSE Tokens(a.text)
    ELSE CompileError("Expected string literal")

\* rfind: the last op_override annotation of the field
FindOverride_Last(attrs) ==
    LET found == {i \in 1..Len(attrs) : attrs[i].path = "op_override"}
    IN  IF found = {} THEN None
        ELSE Some(attrs[CHOOSE i \in found : \A h \in found : h <= i])

\* attrs.iter().find(|a| a.path().is_ident("op_override"))
RECURSIVE FindOverride(_)
FindOverride(attrs) ==
    IF attrs = <<>> THEN None
    ELSE IF Head(attrs).path = "op_override" THEN Some(Head(attrs))
    ELSE FindOverride(Tail(attrs))

\* the ident chosen at lines 246-253 for a field, given the iterator's field_idx
FieldIdent(field, field_idx) ==
    IF field.ident # None THEN NamedIdent(field.ident[1])
    ELSE IndexIdent(field_idx)

\* field_idx after lines 246-253: it advances on every unnamed field
NextFieldIdx_Stuck(field, field_idx) == field_idx

\* field_idx kept in one counter shared by every ComponentsIter
NextFieldIdx_Shared(field, field_idx) ==
    IF field.ident = None THEN iter.field_idx + 1 ELSE field_idx

\* field_idx advanced in the Operate arm only
NextFieldIdx_OperateOnly(field, field_idx) ==
    IF field.ident = None /\ FindOverride(field.attrs) = None
    THEN field_idx + 1
    ELSE field_idx

NextFieldIdx(field, field_idx) ==
    IF field.ident = None THEN field_idx + 1 ELSE field_idx

\* ComponentsIter::new
ComponentsIterNew == [pos |-> 0, field_idx |-> 0]

\* an iterator that yields its current field without moving past it
ComponentsIterNext_NoAdvance(it, fields) ==
    IF it.pos >= Len(fields)
    THEN [item |-> None, iter |-> it]
    ELSE LET field == fields[it.pos + 1]
             found == FindOverride(field.attrs)
             replacement == IF found = None THEN None
                            ELSE Some(Replacement(found[1]))
         IN  [item |-> Some([case |-> IF replacement = None THEN "Operate"
                                      ELSE "Override",
                             ident |-> FieldIdent(field, it.field_idx),
                             replacement |-> replacement]),
              iter |-> it]

\* ComponentsIter::next: the item (an Option) and the iterator afterwards
ComponentsIterNext(it, fields) ==
    IF it.pos >= Len(fields)
    THEN [item |-> None, iter |-> it]
    ELSE LET field == fields[it.pos + 1]
             ident == FieldIdent(field, it.field_idx)
             found == FindOverride(field.attrs)
             replacement == IF found = None THEN None
                            ELSE Some(Replacement(found[1]))
         IN  [item |-> Some([case |-> IF replacement = None THEN "Operate"
                                      ELSE "Override",
                             ident |-> ident,
                             replacement |-> replacement]),
              iter |-> [pos |-> it.pos + 1,
                        field_idx |-> NextFieldIdx(field, it.field_idx)]]

\* Fields::Unit answered with an empty iterator instead of todo!()
CreateComponentsIterPanic_UnitEmpty(a) ==
    IF a.data.kind = "struct" THEN None
    ELSE Some("Can only be derived for structs")

\* create_components_iter: the panic it raises, or None when it returns
CreateComponentsIterPanic(a) ==
    IF a.data.kind = "struct"
    THEN IF a.data.style = "unit" THEN Some("not yet implemented") ELSE None
    ELSE Some("Can only be derived for structs")

(***************************************************************************)
(* Emitted tokens: constructor entries, assignment statements, blocks.     *)
(***************************************************************************)
Arg(base, field, borrow) == [base |-> base, field |-> field, borrow |-> borrow]

\* quote! { #ident: std::ops::#trait_ident::#func_ident(self.#ident, other) }
BcOperateEntry(ident, trait_ident, func_ident) ==
    [ident |-> ident, kind |-> "call",
     path |-> <<"std", "ops", trait_ident, func_ident>>,
     args |-> <<Arg("self", Some(ident), ""), Arg("other", None, "")>>,
     tokens |-> None]

\* the broadcast entry pasted into cw_ops
CwOperateEntry_Broadcast(ident, trait_ident, func_ident) ==
    [ident |-> ident, kind |-> "call",
     path |-> <<"std", "ops", trait_ident, func_ident>>,
     args |-> <<Arg("self", Some(ident), ""), Arg("other", None, "")>>,
     tokens |-> None]

\* quote! { #ident: std::ops::#trait_ident::#func_ident(self.#ident, other.#ident) }
CwOperateEntry(ident, trait_ident, func_ident) ==
    [ident |-> ident, kind |-> "call",
     path |-> <<"std", "ops", trait_ident, func_ident>>,
     args |-> <<Arg("self", Some(ident), ""), Arg("other", Some(ident), "")>>,
     tokens |-> None]

\* quote! { #ident: #replacement }
OverrideEntry(ident, replacement) ==
    [ident |-> ident, kind |-> "verbatim", path |-> <<>>, args |-> <<>>,
     tokens |-> Some(replacement)]

\* quote! { std::ops::#ass_trait_ident::#ass_func_ident(&mut self.#ident, other) }
BcAssStatement(ident, ass_trait_ident, ass_func_ident) ==
    [path |-> <<"std", "ops", ass_trait_ident, ass_func_ident>>,
     args |-> <<Arg("self", Some(ident), "&mut"), Arg("other", None, "")>>]

\* the broadcast statement pasted into cw_ops
CwAssStatement_Broadcast(ident, ass_trait_ident, ass_func_ident) ==
    [path |-> <<"std", "ops", ass_trait_ident, ass_func_ident>>,
     args |-> <<Arg("self", Some(ident), "&mut"), Arg("other", None, "")>>]

\* quote! { std::ops::#ass_trait_ident::#ass_func_ident(&mut self.#ident, other.#ident) }
CwAssStatement(ident, ass_trait_ident, ass_func_ident) ==
    [path |-> <<"std", "ops", ass_trait_ident, ass_func_ident>>,
     args |-> <<Arg("self", Some(ident), "&mut"), Arg("other", Some(ident), "")>>]

\* the Override arm forgotten: every component is operated on
BcPushOp_OperateAll(vec, c, trait_ident, func_ident) ==
    Append(vec, BcOperateEntry(c.ident, trait_ident, func_ident))

\* op after the match arm of bc_ops for one component
BcPushOp(vec, c, trait_ident, func_ident) ==
    IF c.case = "Operate"
    THEN Append(vec, BcOperateEntry(c.ident, trait_ident, func_ident))
    ELSE Append(vec, OverrideEntry(c.ident, c.replacement[1]))

\* the in-place statement pushed outside the match: overrides get one too
BcPushAssOp_All(vec, c, ass_trait_ident, ass_func_ident) ==
    Append(vec, BcAssStatement(c.ident, ass_trait_ident, ass_func_ident))

\* ass_op after the match arm of bc_ops for one component
BcPushAssOp(vec, c, ass_trait_ident, ass_func_ident) ==
    IF c.case = "Operate"
    THEN Append(vec, BcAssStatement(c.ident, ass_trait_ident, ass_func_ident))
    ELSE vec

\* op after the match arm of cw_ops for one component
CwPushOp(vec, c, trait_ident, func_ident) ==
    IF c.case = "Operate"
    THEN Append(vec, CwOperateEntry(c.ident, trait_ident, func_ident))
    ELSE Append(vec, OverrideEntry(c.ident, c.replacement[1]))

\* ass_op after the match arm of cw_ops for one component
CwPushAssOp(vec, c, ass_trait_ident, ass_func_ident) ==
    IF c.case = "Operate"
    THEN Append(vec, CwAssStatement(c.ident, ass_trait_ident, ass_func_ident))
    ELSE vec

\* impl #impl_generics std::ops::#trait_ident<#scalar_type> for #name ... (bc_ops)
BcValueBlock(g, trait_ident, st, name, wc, func_ident, body) ==
    [kind |-> "value", impl_generics |-> g,
     trait |-> <<"std", "ops", trait_ident>>, trait_args |-> Some(st),
     name |-> name, self_generics |-> g, where_clause |-> wc,
     func |-> func_ident, other_ty |-> st, body |-> body]

\* impl #impl_generics std::ops::#ass_trait_ident<#scalar_type> for #name ... (bc_ops)
BcAssBlock(g, ass_trait_ident, st, name, wc, ass_func_ident, body) ==
    [kind |-> "assign", impl_generics |-> g,
     trait |-> <<"std", "ops", ass_trait_ident>>, trait_args |-> Some(st),
     name |-> name, self_generics |-> g, where_clause |-> wc,
     func |-> ass_func_ident, other_ty |-> st, body |-> body]

\* impl #impl_generics std::ops::#trait_ident for #name ... (cw_ops)
CwValueBlock(g, trait_ident, name, wc, func_ident, body) ==
    [kind |-> "value", impl_generics |-> g,
     trait |-> <<"std", "ops", trait_ident>>, trait_args |-> None,
     name |-> name, self_generics |-> g, where_clause |-> wc,
     func |-> func_ident, other_ty |-> Some("Self"), body |-> body]

\* impl #impl_generics std::ops::#ass_trait_ident for #name ... (cw_ops)
CwAssBlock(g, ass_trait_ident, name, wc, ass_func_ident, body) ==
    [kind |-> "assign", impl_generics |-> g,
     trait |-> <<"std", "ops", ass_trait_ident>>, trait_args |-> None,
     name |-> name, self_generics |-> g, where_clause |-> wc,
     func |-> ass_func_ident, other_ty |-> Some("Self"), body |-> body]

(***************************************************************************)
(* The declarations explored.                                              *)
(***************************************************************************)
SeqsUpTo(S, n) == UNION {[1..k -> S] : k \in 0..n}

TyNames == <<"T", "U", "V", "W">>
FieldNames == <<"x", "y", "z", "w">>

Shape(k, bs) == [kind |-> k, bounds |-> bs]
LifetimeShape == Shape("lifetime", <<StaticB>>)

\* predicates with at most one bound, and a lifetime predicate
SimpleShapes ==
    {Shape("type", bs) : bs \in SeqsUpTo(BoundAlphabet, 1)} \cup {LifetimeShape}
\* predicates with two or more bounds, in every order
RichShapes ==
    {Shape("type", bs) : bs \in SeqsUpTo(BoundAlphabet, MaxBounds) \
                                 SeqsUpTo(BoundAlphabet, 1)}
\* the predicates written next to a rich one
CompanionShapes == {Shape("type", <<ScalarB>>), Shape("type", <<CopyB>>)}

ShapeSeqs ==
    SeqsUpTo(SimpleShapes, MaxPreds)
    \cup {[s EXCEPT ![i] = r] :
            <<s, i, r>> \in {t \in SeqsUpTo(CompanionShapes, MaxPreds)
                                   \X (1..MaxPreds) \X RichShapes :
                               t[2] <= Len(t[1])}}

Predicates(shapes) ==
    [i \in 1..Len(shapes) |->
        IF shapes[i].kind = "type"
        THEN TypePredicate(TyNames[i], shapes[i].bounds)
        ELSE LifetimePredicate("'a", shapes[i].bounds)]

WhereClauses == {None} \cup {Some(Predicates(s)) : s \in ShapeSeqs}

\* the attribute lists a field is declared with
AttrLists ==
    {<<>>, <<DocAttr>>, <<OvPhantom>>, <<DocAttr, OvDefault>>,
     <<OvDefault, OvPhantom>>, <<OvUnlexable>>, <<OvNumber>>, <<OvPath>>,
     <<OvNoArgs, OvPhantom>>}

NamedFields(attrs) ==
    [i \in 1..Len(attrs) |-> [ident |-> Some(FieldNames[i]), attrs |-> attrs[i]]]
UnnamedFields(attrs) ==
    [i \in 1..Len(attrs) |-> [ident |-> None, attrs |-> attrs[i]]]

StructData ==
    {[kind |-> "struct", style |-> "named", fields |-> NamedFields(a)] :
        a \in SeqsUpTo(AttrLists, MaxFields)}
    \cup {[kind |-> "struct", style |-> "unnamed", fields |-> UnnamedFields(a)] :
        a \in SeqsUpTo(AttrLists, MaxFields)}

UnitStruct == [kind |-> "struct", style |-> "unit", fields |-> <<>>]
EnumData == [kind |-> "enum", style |-> "none", fields |-> <<>>]
UnionData == [kind |-> "union", style |-> "none", fields |-> <<>>]

ParamChoices ==
    {GenericParam("type", "T", bs, d) :
        bs \in {<<>>, <<CopyB>>}, d \in {None, Some("f32")}}
    \cup {GenericParam("lifetime", "'a", <<>>, None)}
    \cup {GenericParam("const", "N", <<>>, d) : d \in {None, Some("3")}}

Declaration(params, wc, data) ==
    [ident |-> "S", generics |-> [params |-> params, where_clause |-> wc],
     data |-> data]

PlainParams == <<GenericParam("type", "T", <<>>, None)>>
PlainWhere == Some(<<TypePredicate("T", <<ScalarB>>)>>)
PlainData ==
    [kind |-> "struct", style |-> "named",
     fields |-> NamedFields(<<<<>>, <<OvPhantom>>>>)]

\* structs one of whose fields is overridden by tokens that are no expression
DanglingData ==
    {[kind |-> "struct", style |-> "named", fields |-> NamedFields(a)] :
        a \in {<< <<>>, <<OvDangling>> >>, << <<OvDangling>>, <<DocAttr>> >>}}
    \cup {[kind |-> "struct", style |-> "unnamed", fields |-> UnnamedFields(a)] :
        a \in {<< <<OvDangling>>, <<>> >>}}

\* every where-clause on a plain struct, every field list under a plain
\* where-clause, every parameter list, every kind of declaration with and
\* without a where-clause, and the structs of DanglingData
Declarations ==
    {Declaration(PlainParams, wc, PlainData) : wc \in WhereClauses}
    \cup {Declaration(PlainParams, PlainWhere, d) : d \in StructData}
    \cup {Declaration(p, PlainWhere, PlainData) :
            p \in SeqsUpTo(ParamChoices, MaxParams)}
    \cup {Declaration(PlainParams, wc, d) :
            wc \in {None, PlainWhere},
            d \in {UnitStruct, EnumData, UnionData,
                   [kind |-> "struct", style |-> "named", fields |-> <<>>],
                   [kind |-> "struct", style |-> "unnamed", fields |-> <<>>],
                   [kind |-> "struct", style |-> "unnamed",
                    fields |-> UnnamedFields(<<<<>>, <<>>>>)]}}
    \cup {Declaration(PlainParams, PlainWhere, d) : d \in DanglingData}

(***************************************************************************)
(* The invocation.                                                         *)
(***************************************************************************)
Init ==
    /\ entry \in EntryPoints
    /\ ast \in Declarations
    /\ pc = "start"
    /\ impl_generics = <<>>
    /\ impls = <<>>
    /\ opi = 1
    /\ where_clause = None
    /\ scalar_type = None
    /\ ass_where_clause = None
    /\ op = <<>>
    /\ ass_op = <<>>
    /\ iter = ComponentsIterNew
    /\ panic = None
    /\ output = None
    /\ peer = None

trait_ident == Ops(entry)[opi]
func_ident == ToLowercase(trait_ident)
ass_trait_ident == AssTraitIdent(trait_ident)
ass_func_ident == AssFuncIdent(func_ident)

\* a panic unwinds the invocation: nothing is returned
Abort(msg) ==
    /\ pc' = "aborted"
    /\ panic' = Some(msg)
    /\ UNCHANGED <<peer, entry, ast, impl_generics, impls, opi, where_clause,
                   scalar_type, ass_where_clause, op, ass_op, iter, output>>

UnwrapNone == "called Option::unwrap() on a None value"

\* bc_ops, lines 27-31
BcStart ==
    /\ pc = "start"
    /\ IsBroadcast(entry)
    /\ impl_generics' = generics(ast)
    /\ impls' = <<>>
    /\ opi' = 1
    /\ pc' = "loop"
    /\ UNCHANGED <<peer, entry, ast, where_clause, scalar_type, ass_where_clause,
                   op, ass_op, iter, panic, output>>

\* cw_ops, lines 111-115
CwStart ==
    /\ pc = "start"
    /\ ~IsBroadcast(entry)
    /\ impl_generics' = generics(ast)
    /\ impls' = <<>>
    /\ opi' = 1
    /\ pc' = "loop"
    /\ UNCHANGED <<peer, entry, ast, where_clause, scalar_type, ass_where_clause,
                   op, ass_op, iter, panic, output>>

\* bc_ops with `if let Some(..)` in place of unwrap(): a missing where-clause
\* is skipped
BcValueWhere_IfLet ==
    /\ pc = "loop"
    /\ IsBroadcast(entry)
    /\ opi <= Len(Ops(entry))
    /\ LET cloned == ast.generics.where_clause
       IN  /\ where_clause' = IF cloned = None THEN None
                              ELSE Some(AugmentValue(cloned[1], trait_ident))
           /\ scalar_type' = IF cloned = None THEN None
                             ELSE CaptureScalar(cloned[1], None)
    /\ op' = <<>>
    /\ pc' = "ass_where"
    /\ UNCHANGED <<peer, entry, ast, impl_generics, impls, opi,
                   ass_where_clause, ass_op, iter, panic, output>>

\* bc_ops, lines 32-54: a fresh clone of the declaration's where-clause is
\* augmented for the value block and the operand type is captured
BcValueWhere ==
    /\ pc = "loop"
    /\ IsBroadcast(entry)
    /\ opi <= Len(Ops(entry))
    /\ LET cloned == ast.generics.where_clause
       IN  IF cloned = None
           THEN Abort(UnwrapNone)
           ELSE /\ where_clause' = Some(AugmentValue(cloned[1], trait_ident))
                /\ scalar_type' = CaptureScalar(cloned[1], None)
                /\ op' = <<>>
                /\ pc' = "ass_where"
                /\ UNCHANGED <<peer, entry, ast, impl_generics, impls, opi,
                               ass_where_clause, ass_op, iter, panic, output>>

\* cw_ops, lines 116-136: as bc_ops, without the operand type
CwValueWhere ==
    /\ pc = "loop"
    /\ ~IsBroadcast(entry)
    /\ opi <= Len(Ops(entry))
    /\ LET cloned == ast.generics.where_clause
       IN  IF cloned = None
           THEN Abort(UnwrapNone)
           ELSE /\ where_clause' = Some(AugmentValue(cloned[1], trait_ident))
                /\ op' = <<>>
                /\ pc' = "ass_where"
                /\ UNCHANGED <<peer, entry, ast, impl_generics, impls, opi,
                               scalar_type, ass_where_clause, ass_op, iter,
                               panic, output>>

\* bc_ops, lines 56-73: a second fresh clone is augmented for the assignment block
BcAssWhere ==
    /\ pc = "ass_where"
    /\ IsBroadcast(entry)
    /\ LET cloned == ast.generics.where_clause
       IN  IF cloned = None
           THEN Abort(UnwrapNone)
           ELSE /\ ass_where_clause' =
                       Some(AugmentAssign(cloned[1], ass_trait_ident))
                /\ ass_op' = <<>>
                /\ pc' = "iter"
                /\ UNCHANGED <<peer, entry, ast, impl_generics, impls, opi,
                               where_clause, scalar_type, op, iter, panic,
                               output>>

\* cw_ops, lines 138-155
CwAssWhere ==
    /\ pc = "ass_where"
    /\ ~IsBroadcast(entry)
    /\ LET cloned == ast.generics.where_clause
       IN  IF cloned = None
           THEN Abort(UnwrapNone)
           ELSE /\ ass_where_clause' =
                       Some(AugmentAssign(cloned[1], ass_trait_ident))
                /\ ass_op' = <<>>
                /\ pc' = "iter"
                /\ UNCHANGED <<peer, entry, ast, impl_generics, impls, opi,
                               where_clause, scalar_type, op, iter, panic,
                               output>>

\* create_components_iter(&ast), called at line 75 and at line 157
CreateComponentsIter ==
    /\ pc = "iter"
    /\ IF CreateComponentsIterPanic(ast) # None
       THEN Abort(CreateComponentsIterPanic(ast)[1])
       ELSE /\ iter' = ComponentsIterNew
            /\ pc' = "components"
            /\ UNCHANGED <<peer, entry, ast, impl_generics, impls, opi, where_clause,
                           scalar_type, ass_where_clause, op, ass_op, panic,
                           output>>

\* bc_ops, lines 75-87: one turn of the loop over the components
BcComponent ==
    /\ pc = "components"
    /\ IsBroadcast(entry)
    /\ LET nx == ComponentsIterNext(iter, ast.data.fields)
       IN  /\ iter' = nx.iter
           /\ IF nx.item = None
              THEN /\ pc' = "push"
                   /\ UNCHANGED <<op, ass_op>>
              ELSE /\ op' = BcPushOp(op, nx.item[1], trait_ident, func_ident)
                   /\ ass_op' = BcPushAssOp(ass_op, nx.item[1], ass_trait_ident,
                                            ass_func_ident)
                   /\ pc' = "components"
    /\ UNCHANGED <<peer, entry, ast, impl_generics, impls, opi, where_clause,
                   scalar_type, ass_where_clause, panic, output>>

\* cw_ops, lines 157-167
CwComponent ==
    /\ pc = "components"
    /\ ~IsBroadcast(entry)
    /\ LET nx == ComponentsIterNext(iter, ast.data.fields)
       IN  /\ iter' = nx.iter
           /\ IF nx.item = None
              THEN /\ pc' = "push"
                   /\ UNCHANGED <<op, ass_op>>
              ELSE /\ op' = CwPushOp(op, nx.item[1], trait_ident, func_ident)
                   /\ ass_op' = CwPushAssOp(ass_op, nx.item[1], ass_trait_ident,
                                            ass_func_ident)
                   /\ pc' = "components"
    /\ UNCHANGED <<peer, entry, ast, impl_generics, impls, opi, where_clause,
                   scalar_type, ass_where_clause, panic, output>>

\* the two impls.push in the other order
PushBlocks_AssFirst(vec, value_block, ass_block) ==
    Append(Append(vec, ass_block), value_block)

\* the second impls.push left out
PushBlocks_ValueOnly(vec, value_block, ass_block) == Append(vec, value_block)

\* the two impls.push of one operator
PushBlocks(vec, value_block, ass_block) ==
    Append(Append(vec, value_block), ass_block)

\* bc_ops, lines 88-106: both blocks are pushed and the loop moves on
BcPush ==
    /\ pc = "push"
    /\ IsBroadcast(entry)
    /\ impls' = PushBlocks(impls,
                    BcValueBlock(impl_generics, trait_ident, scalar_type,
                                 ast.ident, where_clause, func_ident, op),
                    BcAssBlock(impl_generics, ass_trait_ident, scalar_type,
                               ast.ident, ass_where_clause, ass_func_ident,
                               ass_op))
    /\ opi' = opi + 1
    /\ pc' = "loop"
    /\ UNCHANGED <<peer, entry, ast, impl_generics, where_clause, scalar_type,
                   ass_where_clause, op, ass_op, iter, panic, output>>

\* cw_ops, lines 168-186
CwPush ==
    /\ pc = "push"
    /\ ~IsBroadcast(entry)
    /\ impls' = PushBlocks(impls,
                    CwValueBlock(impl_generics, trait_ident, ast.ident,
                                 where_clause, func_ident, op),
                    CwAssBlock(impl_generics, ass_trait_ident, ast.ident,
                               ass_where_clause, ass_func_ident, ass_op))
    /\ opi' = opi + 1
    /\ pc' = "loop"
    /\ UNCHANGED <<peer, entry, ast, impl_generics, where_clause, scalar_type,
                   ass_where_clause, op, ass_op, iter, panic, output>>

\* bc_ops, line 107: quote! {#(#impls)*}.into()
BcReturn ==
    /\ pc = "loop"
    /\ IsBroadcast(entry)
    /\ opi > Len(Ops(entry))
    /\ output' = Some(impls)
    /\ pc' = "done"
    /\ UNCHANGED <<peer, entry, ast, impl_generics, impls, opi, where_clause,
                   scalar_type, ass_where_clause, op, ass_op, iter, panic>>

\* cw_ops, line 187
CwReturn ==
    /\ pc = "loop"
    /\ ~IsBroadcast(entry)
    /\ opi > Len(Ops(entry))
    /\ output' = Some(impls)
    /\ pc' = "done"
    /\ UNCHANGED <<peer, entry, ast, impl_generics, impls, opi, where_clause,
                   scalar_type, ass_where_clause, op, ass_op, iter, panic>>

Next ==
    \/ BcStart
    \/ CwStart
    \/ BcValueWhere
    \/ CwValueWhere
    \/ BcAssWhere
    \/ CwAssWhere
    \/ CreateComponentsIter
    \/ BcComponent
    \/ CwComponent
    \/ BcPush
    \/ CwPush
    \/ BcReturn
    \/ CwReturn

Spec == Init /\ [][Next]_vars

(***************************************************************************)
(* A second invocation.  bc_ops and cw_ops keep everything in locals (ast, *)
(* impl_generics, impls and the per-operator vectors) and the iterator is  *)
(* built by create_components_iter inside the call, so an invocation is a  *)
(* value of its own: Called is its state at entry, Step one step of it.    *)
(***************************************************************************)
Called(e, a) ==
    [entry |-> e, ast |-> a, pc |-> "start", impl_generics |-> <<>>,
     impls |-> <<>>, opi |-> 1, where_clause |-> None, scalar_type |-> None,
     ass_where_clause |-> None, op |-> <<>>, ass_op |-> <<>>,
     iter |-> ComponentsIterNew, panic |-> None, output |-> None]

Terminal == {"done", "aborted"}

Panicked(s, msg) == [s EXCEPT !.pc = "aborted", !.panic = Some(msg)]

\* lines 32-54 (bc_ops) and 116-136 (cw_ops), or the return at 107 / 187
StepLoop(s) ==
    LET t == Ops(s.entry)[s.opi]
        cloned == s.ast.generics.where_clause
    IN  IF s.opi > Len(Ops(s.entry))
        THEN [s EXCEPT !.output = Some(s.impls), !.pc = "done"]
        ELSE IF cloned = None
        THEN Panicked(s, UnwrapNone)
        ELSE [s EXCEPT !.where_clause = Some(AugmentValue(cloned[1], t)),
                       !.scalar_type = IF IsBroadcast(s.entry)
                                       THEN CaptureScalar(cloned[1], None)
                                       ELSE @,
                       !.op = <<>>,
                       !.pc = "ass_where"]

\* lines 56-73 (bc_ops) and 138-155 (cw_ops)
StepAssWhere(s) ==
    LET t == Ops(s.entry)[s.opi]
        cloned == s.ast.generics.where_clause
    IN  IF cloned = None
        THEN Panicked(s, UnwrapNone)
        ELSE [s EXCEPT !.ass_where_clause =
                           Some(AugmentAssign(cloned[1], AssTraitIdent(t))),
                       !.ass_op = <<>>,
                       !.pc = "iter"]

\* lines 75-87 (bc_ops) and 157-167 (cw_ops): one turn of the loop
StepComponent(s) ==
    LET t == Ops(s.entry)[s.opi]
        f == ToLowercase(t)
        nx == ComponentsIterNext(s.iter, s.ast.data.fields)
    IN  IF nx.item = None
        THEN [s EXCEPT !.iter = nx.iter, !.pc = "push"]
        ELSE IF IsBroadcast(s.entry)
        THEN [s EXCEPT !.iter = nx.iter,
                       !.op = BcPushOp(@, nx.item[1], t, f),
                       !.ass_op = BcPushAssOp(@, nx.item[1], AssTraitIdent(t),
                                              AssFuncIdent(f))]
        ELSE [s EXCEPT !.iter = nx.iter,
                       !.op = CwPushOp(@, nx.item[1], t, f),
                       !.ass_op = CwPushAssOp(@, nx.item[1], AssTraitIdent(t),
                                              AssFuncIdent(f))]

\* lines 88-106 (bc_ops) and 168-186 (cw_ops)
StepPush(s) ==
    LET t == Ops(s.entry)[s.opi]
        f == ToLowercase(t)
        blocks ==
            IF IsBroadcast(s.entry)
            THEN PushBlocks(s.impls,
                     BcValueBlock(s.impl_generics, t, s.scalar_type,
                                  s.ast.ident, s.where_clause, f, s.op),
                     BcAssBlock(s.impl_generics, AssTraitIdent(t),
                                s.scalar_type, s.ast.ident,
                                s.ass_where_clause, AssFuncIdent(f), s.ass_op))
            ELSE PushBlocks(s.impls,
                     CwValueBlock(s.impl_generics, t, s.ast.ident,
                                  s.where_clause, f, s.op),
                     CwAssBlock(s.impl_generics, AssTraitIdent(t), s.ast.ident,
                                s.ass_where_clause, AssFuncIdent(f), s.ass_op))
    IN  [s EXCEPT !.impls = blocks, !.opi = @ + 1, !.pc = "loop"]

\* one step of bc_ops / cw_ops on the invocation s
Step(s) ==
    CASE s.pc = "start" ->
             [s EXCEPT !.impl_generics = generics(s.ast), !.impls = <<>>,
                       !.opi = 1, !.pc = "loop"]
      [] s.pc = "loop" -> StepLoop(s)
      [] s.pc = "ass_where" -> StepAssWhere(s)
      [] s.pc = "iter" ->
             IF CreateComponentsIterPanic(s.ast) # None
             THEN Panicked(s, CreateComponentsIterPanic(s.ast)[1])
             ELSE [s EXCEPT !.iter = ComponentsIterNew, !.pc = "components"]
      [] s.pc = "components" -> StepComponent(s)
      [] s.pc = "push" -> StepPush(s)
      [] OTHER -> s

\* the invocation s run to its end with nothing else running
RECURSIVE Alone(_)
Alone(s) == IF s.pc \in Terminal THEN s ELSE Alone(Step(s))

\* what the entry point e returns for the declaration a (None on a panic)
Generated(e, a) == Alone(Called(e, a)).output

\* this invocation as a value
This ==
    [entry |-> entry, ast |-> ast, pc |-> pc, impl_generics |-> impl_generics,
     impls |-> impls, opi |-> opi, where_clause |-> where_clause,
     scalar_type |-> scalar_type, ass_where_clause |-> ass_where_clause,
     op |-> op, ass_op |-> ass_op, iter |-> iter, panic |-> panic,
     output |-> output]

\* the declarations two concurrent invocations are run on
PairDeclarations ==
    {Declaration(PlainParams, PlainWhere, d) :
        d \in {[kind |-> "struct", style |-> "unnamed",
                fields |-> UnnamedFields(<< <<>>, <<OvPhantom>> >>)],
               PlainData}}
    \cup {Declaration(PlainParams, None, PlainData)}

PairEntryPoints == {"bc_bitops", "cw_arithmetic"}

InitPair ==
    /\ entry \in PairEntryPoints
    /\ ast \in PairDeclarations
    /\ pc = "start"
    /\ impl_generics = <<>>
    /\ impls = <<>>
    /\ opi = 1
    /\ where_clause = None
    /\ scalar_type = None
    /\ ass_where_clause = None
    /\ op = <<>>
    /\ ass_op = <<>>
    /\ iter = ComponentsIterNew
    /\ panic = None
    /\ output = None
    /\ peer \in {Some(Called(e, a)) : e \in PairEntryPoints,
                                      a \in PairDeclarations}

\* the other invocation takes a step
PeerStep ==
    /\ peer # None
    /\ peer[1].pc \notin Terminal
    /\ peer' = Some(Step(peer[1]))
    /\ UNCHANGED <<entry, ast, pc, impl_generics, impls, opi, where_clause,
                   scalar_type, ass_where_clause, op, ass_op, iter, panic,
                   output>>

NextPair ==
    \/ Next
    \/ PeerStep

SpecPair == InitPair /\ [][NextPair]_vars

\* an invocation runs on the compiler's thread and is never suspended for
\* good: whenever it has a next step it eventually takes it
SpecFair == Init /\ [][Next]_vars /\ WF_vars(Next)

(***************************************************************************)
(* The meaning of the generated code.  The blocks are generic over the     *)
(* field types, so a run of a generated method is evaluated over terms:    *)
(* the left operand's field f holds SelfField(f), a broadcast operand is   *)
(* OtherValue, a componentwise operand's field f holds OtherField(f), and  *)
(* std::ops::Op::op(l, r) is Applied(Op, l, r).  An in-place OpAssign on a *)
(* place holding l stores Applied(Op, l, r) there.                         *)
(***************************************************************************)
SelfField(id) == [t |-> "self", ident |-> id]
OtherValue == [t |-> "other"]
OtherField(id) == [t |-> "other", ident |-> id]
Applied(o, l, r) == [t |-> "apply", op |-> o, lhs |-> l, rhs |-> r]
Evaluated(tokens) == [t |-> "expr", tokens |-> tokens]
Undefined == [t |-> "undefined"]

\* the name Rust gives the k-th declared field (1-based k): its identifier,
\* or its 0-based position in a tuple struct
DeclaredIdent(a, k) ==
    IF a.data.fields[k].ident # None
    THEN NamedIdent(a.data.fields[k].ident[1])
    ELSE IndexIdent(k - 1)

DeclaredIdents(a) == {DeclaredIdent(a, k) : k \in 1..Len(a.data.fields)}

\* the left operand before the call
LeftOperand(a) == [id \in DeclaredIdents(a) |-> SelfField(id)]

\* self.#ident, other or other.#ident
EvalArg(arg, left) ==
    IF arg.base = "self"
    THEN IF arg.field # None /\ arg.field[1] \in DOMAIN left
         THEN left[arg.field[1]] ELSE Undefined
    ELSE IF arg.field = None THEN OtherValue ELSE OtherField(arg.field[1])

\* one entry of the constructor Self { ... }
EvalEntry(e, left) ==
    IF e.kind = "call"
    THEN Applied(e.path[3], EvalArg(e.args[1], left), EvalArg(e.args[2], left))
    ELSE Evaluated(e.tokens[1])

\* the record returned by the value method of a block
RunValue(block, left) ==
    [id \in {block.body[k].ident : k \in 1..Len(block.body)} |->
        EvalEntry(block.body[CHOOSE k \in 1..Len(block.body) :
                                 block.body[k].ident = id], left)]

OpOfAssign(t) == CHOOSE o \in AllOps : AssTraitIdent(o) = t

\* the left operand after the statements of an assignment body have run
RECURSIVE RunStatements(_, _)
RunStatements(stmts, left) ==
    IF stmts = <<>> THEN left
    ELSE LET s == Head(stmts)
             target == s.args[1].field[1]
         IN  RunStatements(Tail(stmts),
                IF target \in DOMAIN left
                THEN [left EXCEPT ![target] =
                        Applied(OpOfAssign(s.path[3]), @, EvalArg(s.args[2], left))]
                ELSE left)

\* the left operand after the assignment method of a block
RunAssign(block, left) == RunStatements(block.body, left)

(***************************************************************************)
(* Vocabulary of the properties.                                           *)
(***************************************************************************)
\* the operator a block belongs to: blocks 2i-1 and 2i are pushed for ops[i]
OperatorOf(j) == Ops(entry)[(j + 1) \div 2]

ValueBlocks == {j \in 1..Len(impls) : impls[j].kind = "value"}
AssBlocks == {j \in 1..Len(impls) : impls[j].kind = "assign"}

\* a bound-list carries the scalar-capability marker at some position
MarkerAnywhere(bs) ==
    \E i \in 1..Len(bs) :
        bs[i].kind = "trait" /\ bs[i].path[Len(bs[i].path)] = "Scalar"

\* the field carries an op_override annotation
Annotated(field) ==
    \E i \in 1..Len(field.attrs) : field.attrs[i].path = "op_override"

OperateFields == {k \in 1..Len(ast.data.fields) : ~Annotated(ast.data.fields[k])}
OverrideFields == {k \in 1..Len(ast.data.fields) : Annotated(ast.data.fields[k])}

OriginalPredicates == ast.generics.where_clause[1]

\* the bound a block's where-clause is to gain on a marked predicate
OwnBound(j, ty) ==
    IF impls[j].kind = "value"
    THEN ValueBound(OperatorOf(j), ty)
    ELSE AssBound(AssTraitIdent(OperatorOf(j)))

(***************************************************************************)
(* C1: for every operator and in both modes, every type predicate whose    *)
(* bound-list carries the Scalar marker at any position gains exactly one  *)
(* bound Op<Output = bounded type> in the value block's where-clause and   *)
(* exactly one bound OpAssign in the assignment block's where-clause; a    *)
(* predicate without the marker is left unchanged in both.                 *)
(***************************************************************************)
C1_MarkerAnyPositionAugmented ==
    \A j \in 1..Len(impls) :
        /\ impls[j].where_clause # None
        /\ Len(impls[j].where_clause[1]) = Len(OriginalPredicates)
        /\ \A i \in 1..Len(OriginalPredicates) :
              LET orig == OriginalPredicates[i]
                  got == impls[j].where_clause[1][i]
              IN  IF orig.kind = "type" /\ MarkerAnywhere(orig.bounds)
                  THEN got = [orig EXCEPT !.bounds =
                                 Append(@, OwnBound(j, orig.bounded_ty))]
                  ELSE got = orig

(***************************************************************************)
(* C2: for every declaration and operator, the value constructor lists one *)
(* entry per declared field in declaration order, the assignment body      *)
(* lists its statements in the same relative order, and the k-th field of  *)
(* a tuple struct (0-based) is emitted with index k in every block.        *)
(***************************************************************************)
StatementTarget(s) == s.args[1].field[1]

PositionOf(id) ==
    CHOOSE k \in 1..Len(ast.data.fields) : DeclaredIdent(ast, k) = id

C2_FieldOrderPreserved ==
    /\ \A j \in ValueBlocks :
          /\ Len(impls[j].body) = Len(ast.data.fields)
          /\ \A k \in 1..Len(impls[j].body) :
                /\ impls[j].body[k].ident = DeclaredIdent(ast, k)
                /\ ast.data.style = "unnamed" =>
                      impls[j].body[k].ident.index = k - 1
    /\ \A j \in AssBlocks :
          /\ \A s \in 1..Len(impls[j].body) :
                StatementTarget(impls[j].body[s]) \in DeclaredIdents(ast)
          /\ \A s, t \in 1..Len(impls[j].body) :
                s < t => PositionOf(StatementTarget(impls[j].body[s]))
                         < PositionOf(StatementTarget(impls[j].body[t]))
          /\ ast.data.style = "unnamed" =>
                \A s \in 1..Len(impls[j].body) :
                    \E k \in OperateFields :
                        StatementTarget(impls[j].body[s]).index = k - 1

\* a tuple struct whose first field is overridden and whose second is not
C2_Witness ==
    /\ pc = "done"
    /\ ast.data.style = "unnamed"
    /\ Len(ast.data.fields) >= 2
    /\ 1 \in OverrideFields
    /\ 2 \in OperateFields
    /\ impls[2].body # <<>>

(***************************************************************************)
(* C3: across the operators of one invocation the declaration's own        *)
(* where-clause never changes, and the where-clause of every block holds,  *)
(* beyond the original bounds, only the bound appended for that block's    *)
(* own operator and kind: nothing of an earlier operator, nothing of the   *)
(* value set in the assignment set, nothing of the assignment set in the   *)
(* value set.                                                              *)
(***************************************************************************)
C3_OwnBoundsOnly ==
    \A j \in 1..Len(impls) :
        /\ impls[j].where_clause # None
        /\ Len(impls[j].where_clause[1]) = Len(OriginalPredicates)
        /\ \A i \in 1..Len(OriginalPredicates) :
              LET orig == OriginalPredicates[i]
                  got == impls[j].where_clause[1][i]
              IN  /\ got.kind = orig.kind
                  /\ got.bounded_ty = orig.bounded_ty
                  /\ \/ got.bounds = orig.bounds
                     \/ got.bounds = Append(orig.bounds,
                                            OwnBound(j, orig.bounded_ty))

C3_ConstraintSetsIndependent ==
    [][ast' = ast]_vars /\ []C3_OwnBoundsOnly

\* the last operator's blocks are out, and a predicate was augmented
C3_Witness ==
    /\ pc = "done"
    /\ Len(impls) = 2 * Len(Ops(entry))
    /\ \E i \in 1..Len(OriginalPredicates) :
          /\ HasScalar(OriginalPredicates[i].bounds)
          /\ impls[Len(impls)].where_clause[1][i] # OriginalPredicates[i]
          /\ impls[Len(impls) - 1].where_clause[1][i] # OriginalPredicates[i]

(***************************************************************************)
(* C4: for every field without an override and every operator, the value   *)
(* method yields op(left.f, right) for field f in broadcast mode and       *)
(* op(left.f, right.f) in componentwise mode, where the componentwise      *)
(* right operand has the record type itself; so a record without overrides *)
(* is mapped field by field.                                               *)
(***************************************************************************)
RightFor(id) == IF IsBroadcast(entry) THEN OtherValue ELSE OtherField(id)

ExpectedOperated(j, k) ==
    Applied(OperatorOf(j), SelfField(DeclaredIdent(ast, k)),
            RightFor(DeclaredIdent(ast, k)))

C4_OperateFieldsComputed ==
    \A j \in ValueBlocks :
        LET result == RunValue(impls[j], LeftOperand(ast))
        IN  /\ ~IsBroadcast(entry) => impls[j].other_ty = Some("Self")
            /\ \A k \in OperateFields :
                  /\ DeclaredIdent(ast, k) \in DOMAIN result
                  /\ result[DeclaredIdent(ast, k)] = ExpectedOperated(j, k)
            /\ OverrideFields = {} =>
                  result = [id \in DeclaredIdents(ast) |->
                               Applied(OperatorOf(j), SelfField(id), RightFor(id))]

\* a componentwise run over a record of two fields, neither overridden
C4_Witness ==
    /\ pc = "done"
    /\ ~IsBroadcast(entry)
    /\ Len(ast.data.fields) >= 2
    /\ OverrideFields = {}
    /\ Len(impls) = 2 * Len(Ops(entry))

(***************************************************************************)
(* C5 as stated: for every operator and both modes, the in-place method    *)
(* run on a copy of a with operand b leaves the copy equal, field for      *)
(* field, to the record the value method returns for a and b, override     *)
(* fields included.                                                        *)
(***************************************************************************)
C5_AssignEqualsValue ==
    \A j \in ValueBlocks :
        j + 1 \in AssBlocks =>
            RunAssign(impls[j + 1], LeftOperand(ast))
                = RunValue(impls[j], LeftOperand(ast))

(***************************************************************************)
(* C5 as amended: the copy equals the value method's record on every field *)
(* without an override; an overridden field of the copy keeps the value it *)
(* had in a, while the value method's record holds the override expression *)
(* there; for a record without overrides the two records are equal.        *)
(***************************************************************************)
C5_AssignEqualsValueOnOperateFields ==
    \A j \in ValueBlocks :
        j + 1 \in AssBlocks =>
            LET assigned == RunAssign(impls[j + 1], LeftOperand(ast))
                value == RunValue(impls[j], LeftOperand(ast))
            IN  /\ DOMAIN assigned = DOMAIN value
                /\ \A k \in OperateFields :
                      assigned[DeclaredIdent(ast, k)] = value[DeclaredIdent(ast, k)]
                /\ \A k \in OverrideFields :
                      /\ assigned[DeclaredIdent(ast, k)]
                             = SelfField(DeclaredIdent(ast, k))
                      /\ value[DeclaredIdent(ast, k)].t = "expr"
                /\ OverrideFields = {} => assigned = value

\* a componentwise run over a record with an overridden and an operated field
C5_Witness ==
    /\ pc = "done"
    /\ ~IsBroadcast(entry)
    /\ OverrideFields # {}
    /\ OperateFields # {}
    /\ Len(impls) = 2 * Len(Ops(entry))

(***************************************************************************)
(* C6: every block repeats every generic parameter of the declaration in   *)
(* declaration order with its default stripped, whatever the kind of the   *)
(* parameter (type, lifetime, const): no emitted parameter carries a       *)
(* default.                                                                *)
(***************************************************************************)
C6_NoDefaultInImplGenerics ==
    \A j \in 1..Len(impls) :
        /\ Len(impls[j].impl_generics) = Len(ast.generics.params)
        /\ \A i \in 1..Len(ast.generics.params) :
              /\ impls[j].impl_generics[i].kind = ast.generics.params[i].kind
              /\ impls[j].impl_generics[i].ident = ast.generics.params[i].ident
              /\ impls[j].impl_generics[i].default = None

(***************************************************************************)
(* C7: for a field with an override expression, the value constructor's    *)
(* entry is that expression verbatim and names neither operand, so the     *)
(* field of the result is the same for every operator, for both modes and  *)
(* for every operand.                                                      *)
(***************************************************************************)
\* the first op_override annotation of a field
FirstOverride(field) ==
    field.attrs[CHOOSE i \in 1..Len(field.attrs) :
                    /\ field.attrs[i].path = "op_override"
                    /\ \A h \in 1..(i - 1) : field.attrs[h].path # "op_override"]

\* the fields whose annotation supplies an expression
ExpressionFields ==
    {k \in OverrideFields :
        /\ FirstOverride(ast.data.fields[k]).arg_kind = "str"
        /\ ~LexFails(FirstOverride(ast.data.fields[k]).text)}

C7_OverrideVerbatim ==
    \A j \in ValueBlocks :
        /\ Len(impls[j].body) = Len(ast.data.fields)
        /\ \A k \in OverrideFields :
              /\ impls[j].body[k].ident = DeclaredIdent(ast, k)
              /\ impls[j].body[k].kind = "verbatim"
              /\ impls[j].body[k].args = <<>>
              /\ \A h \in ValueBlocks : impls[h].body[k] = impls[j].body[k]
        /\ \A k \in ExpressionFields :
              LET e == impls[j].body[k]
                  written == FirstOverride(ast.data.fields[k]).text
              IN  /\ e.tokens = Some(Tokens(written))
                  /\ RunValue(impls[j], LeftOperand(ast))[e.ident]
                         = Evaluated(Tokens(written))

\* every operator of a family has emitted its entry for an overridden field
C7_Witness ==
    /\ pc = "done"
    /\ Len(impls) = 2 * Len(Ops(entry))
    /\ ExpressionFields # {}
    /\ OperateFields # {}

(***************************************************************************)
(* C8: for every operator and both modes the assignment body holds exactly *)
(* one in-place statement per field without an override and none for an    *)
(* overridden field, so the in-place method leaves every overridden field  *)
(* of the left operand as it was and turns every other field f into        *)
(* op(f, operand).                                                         *)
(***************************************************************************)
C8_AssignmentSkipsOverrides ==
    \A j \in AssBlocks :
        LET body == impls[j].body
            assigned == RunAssign(impls[j], LeftOperand(ast))
        IN  /\ Len(body) = Cardinality(OperateFields)
            /\ \A k \in OperateFields :
                  /\ Cardinality({s \in 1..Len(body) :
                        StatementTarget(body[s]) = DeclaredIdent(ast, k)}) = 1
                  /\ assigned[DeclaredIdent(ast, k)] = ExpectedOperated(j, k)
            /\ \A k \in OverrideFields :
                  /\ \A s \in 1..Len(body) :
                        StatementTarget(body[s]) # DeclaredIdent(ast, k)
                  /\ assigned[DeclaredIdent(ast, k)]
                         = SelfField(DeclaredIdent(ast, k))

\* a broadcast run over a record with an overridden and an operated field
C8_Witness ==
    /\ pc = "done"
    /\ IsBroadcast(entry)
    /\ OverrideFields # {}
    /\ OperateFields # {}
    /\ Len(impls) = 2 * Len(Ops(entry))

(***************************************************************************)
(* C9: on a struct with a named or positional field list and a             *)
(* where-clause, each entry point returns exactly 2 x n blocks, n the      *)
(* number of operators of its family (3 bitwise: 6 blocks, 4 arithmetic:   *)
(* 8 blocks), one value block and one assignment block per operator,       *)
(* whatever the fields, overrides and marker matches.                      *)
(***************************************************************************)
FieldBearing(a) == a.data.kind = "struct" /\ a.data.style \in {"named", "unnamed"}

FamilySize == IF entry \in {"bc_bitops", "cw_bitops"} THEN 3 ELSE 4

C9_TwoBlocksPerOperator ==
    (FieldBearing(ast) /\ ast.generics.where_clause # None) =>
        /\ pc # "aborted"
        /\ pc = "done" =>
              /\ output # None
              /\ Len(output[1]) = 2 * FamilySize
              /\ \A i \in 1..FamilySize :
                    /\ output[1][2 * i - 1].kind = "value"
                    /\ output[1][2 * i - 1].trait[3] = Ops(entry)[i]
                    /\ output[1][2 * i].kind = "assign"
                    /\ output[1][2 * i].trait[3] = AssTraitIdent(Ops(entry)[i])
                    /\ Cardinality({j \in 1..Len(output[1]) :
                          output[1][j].trait[3] \in
                            {Ops(entry)[i], AssTraitIdent(Ops(entry)[i])}}) = 2

\* the arithmetic family returned for a record with an override
C9_Witness ==
    /\ pc = "done"
    /\ entry = "bc_arithmetic"
    /\ output # None
    /\ Len(output[1]) = 8
    /\ OverrideFields # {}

(***************************************************************************)
(* C10 as stated: on an enum, a union, a unit struct or a struct declared  *)
(* with an empty field list, every entry point aborts and returns nothing. *)
(***************************************************************************)
C10_FieldLessAborts ==
    (\/ ast.data.kind \in {"enum", "union"}
     \/ ast.data.style = "unit"
     \/ ast.data.fields = <<>>) =>
        /\ pc # "done"
        /\ output = None

(***************************************************************************)
(* C10 as amended: on an enum, a union or a unit struct every entry point  *)
(* aborts and returns nothing; a struct declared with an empty braced or   *)
(* parenthesised field list is not rejected by the field walk: with a      *)
(* where-clause it is generated for, every body empty.                     *)
(***************************************************************************)
C10_VariantOrUnitAborts ==
    /\ (ast.data.kind \in {"enum", "union"} \/ ast.data.style = "unit") =>
          /\ pc \notin {"components", "push", "done"}
          /\ impls = <<>>
          /\ output = None
    /\ (FieldBearing(ast) /\ ast.data.fields = <<>>) =>
          /\ panic \in {None, Some(UnwrapNone)}
          /\ ast.generics.where_clause # None => pc # "aborted"
          /\ \A j \in 1..Len(impls) : impls[j].body = <<>>
          /\ pc = "done" => Len(output[1]) = 2 * Len(Ops(entry))

\* a unit struct with a where-clause stopped by the field walk
C10_Witness ==
    /\ pc = "aborted"
    /\ ast.data.style = "unit"
    /\ ast.generics.where_clause # None
    /\ panic = Some("not yet implemented")
    /\ output = None

(***************************************************************************)
(* C11: when the string literal of a field's override does not parse as an  *)
(* expression, generation still completes with all its blocks, the field's *)
(* value entry is a verbatim compile error, and every other entry, the     *)
(* generic parameters and the where-clauses are those generated for the    *)
(* same declaration with a literal that parses.                            *)
(***************************************************************************)
\* syn's Expr grammar on the literal texts of the explored annotations
ParsesAsExpression(text) == text \in {"PhantomData", "Default::default()", "3"}

\* the fields whose override is a string literal that is no expression
FailingFields ==
    {k \in OverrideFields :
        /\ FirstOverride(ast.data.fields[k]).arg_kind = "str"
        /\ ~ParsesAsExpression(FirstOverride(ast.data.fields[k]).text)}

\* the declaration a with the override literals of its k-th field set to text
WithLiteral(a, k, text) ==
    [a EXCEPT !.data.fields[k].attrs =
        [i \in 1..Len(@) |->
            IF @[i].path = "op_override" /\ @[i].arg_kind = "str"
            THEN [@[i] EXCEPT !.text = text]
            ELSE @[i]]]

\* block b with the k-th entry of a value body taken from block c
WithEntryOf(b, k, c) ==
    IF b.kind = "value" /\ k \in 1..Len(b.body) /\ k \in 1..Len(c.body)
    THEN [b EXCEPT !.body[k] = c.body[k]]
    ELSE b

RestAsWhenLiteralParses ==
    \A k \in FailingFields :
        LET good == Generated(entry, WithLiteral(ast, k, "PhantomData"))
        IN  /\ pc = "aborted" => good = None
            /\ pc = "done" =>
                  /\ good # None
                  /\ Len(output[1]) = 2 * Len(Ops(entry))
                  /\ Len(good[1]) = Len(output[1])
                  /\ \A j \in 1..Len(output[1]) :
                        output[1][j] = WithEntryOf(good[1][j], k, output[1][j])

C11_UnparsableLiteralDeferred ==
    /\ RestAsWhenLiteralParses
    /\ \A k \in FailingFields :
          \A j \in ValueBlocks :
              /\ impls[j].body[k].kind = "verbatim"
              /\ impls[j].body[k].tokens # None
              /\ impls[j].body[k].tokens[1].kind = "compile_error"

(***************************************************************************)
(* C12: for every permutation of the declared fields, generating again     *)
(* gives the same blocks with the per-field entries permuted alike: the    *)
(* value entry and the assignment statement of each field are unchanged,   *)
(* only their positions move, and nothing else in the output changes.      *)
(***************************************************************************)
FieldPermutations ==
    LET n == Len(ast.data.fields)
    IN  {p \in [1..n -> 1..n] : \A i, h \in 1..n : p[i] = p[h] => i = h}

\* the declaration whose i-th field is the p[i]-th field of a
Permuted(a, p) ==
    [a EXCEPT !.data.fields = [i \in 1..Len(p) |-> a.data.fields[p[i]]]]

\* an entry or statement with its field references renamed to id
Retarget(e, id) ==
    LET args == [i \in 1..Len(e.args) |->
                    IF e.args[i].field = None THEN e.args[i]
                    ELSE [e.args[i] EXCEPT !.field = Some(id)]]
    IN  IF "ident" \in DOMAIN e
        THEN [e EXCEPT !.ident = id, !.args = args]
        ELSE [e EXCEPT !.args = args]

\* the ident a moved entry is to carry at its new position i
MovedIdent(p, i, reindex) ==
    IF reindex /\ ast.data.style = "unnamed"
    THEN IndexIdent(i - 1)
    ELSE DeclaredIdent(ast, p[i])

\* the body of a block of this invocation, its entries moved along p
MovedBody(block, p, reindex) ==
    LET n == Len(p)
        rank(k) == Cardinality({h \in OperateFields : h <= k})
        kept == SelectSeq([i \in 1..n |-> i], LAMBDA i : p[i] \in OperateFields)
    IN  IF block.kind = "value"
        THEN [i \in 1..n |->
                 Retarget(block.body[p[i]], MovedIdent(p, i, reindex))]
        ELSE [s \in 1..Len(kept) |->
                 Retarget(block.body[rank(p[kept[s]])],
                          MovedIdent(p, kept[s], reindex))]

PermutationMovesEntries(reindex) ==
    pc \in Terminal =>
        \A p \in FieldPermutations :
            LET again == Alone(Called(entry, Permuted(ast, p)))
            IN  /\ again.pc = pc
                /\ again.panic = panic
                /\ pc = "done" =>
                      /\ Len(again.output[1]) = Len(output[1])
                      /\ \A j \in 1..Len(output[1]) :
                            again.output[1][j] =
                                [output[1][j] EXCEPT
                                    !.body = MovedBody(output[1][j], p, reindex)]

C12_EntriesUnchangedUnderPermutation == PermutationMovesEntries(FALSE)

\* amended: in a tuple struct an entry moves to the index of its new position
C12_EntriesFollowFields == PermutationMovesEntries(TRUE)

\* a struct with named fields, one overridden and one not, has been generated for
C12_Witness ==
    /\ pc = "done"
    /\ output # None /\ output[1] # <<>>
    /\ ast.data.style = "named"
    /\ Len(ast.data.fields) >= 2
    /\ OperateFields # {}
    /\ OverrideFields # {}

(***************************************************************************)
(* C13: invocations share no mutable state: however the steps of two       *)
(* concurrent invocations interleave, each returns what it returns when    *)
(* run alone, and two invocations of the same entry point on the same      *)
(* declaration return the same output.                                     *)
(***************************************************************************)
C13_InvocationsIndependent ==
    /\ pc \in Terminal =>
          /\ output = Generated(entry, ast)
          /\ panic = Alone(Called(entry, ast)).panic
    /\ peer # None =>
          /\ peer[1].pc \in Terminal =>
                /\ peer[1].output = Generated(peer[1].entry, peer[1].ast)
                /\ peer[1].panic =
                       Alone(Called(peer[1].entry, peer[1].ast)).panic
          /\ (/\ pc \in Terminal
              /\ peer[1].pc \in Terminal
              /\ peer[1].entry = entry
              /\ peer[1].ast = ast) =>
                /\ peer[1].output = output
                /\ peer[1].panic = panic

\* two invocations of one entry point on one tuple struct have both returned
C13_Witness ==
    /\ peer # None
    /\ pc = "done"
    /\ peer[1].pc = "done"
    /\ peer[1].entry = entry
    /\ peer[1].ast = ast
    /\ ast.data.style = "unnamed"
    /\ output # None /\ output[1] # <<>>

(***************************************************************************)
(* C14: in broadcast mode, when several where-clause predicates carry the  *)
(* Scalar marker, both blocks of every operator take as operand type the   *)
(* bounded type of the last such predicate in where-clause order, and      *)
(* every such predicate still has its bound appended.                      *)
(***************************************************************************)
\* the positions of the type predicates whose bound-list carries the marker
MarkedPredicates ==
    {i \in 1..Len(OriginalPredicates) :
        /\ OriginalPredicates[i].kind = "type"
        /\ MarkerAnywhere(OriginalPredicates[i].bounds)}

LastMarked == CHOOSE i \in MarkedPredicates : \A h \in MarkedPredicates : h <= i

C14_LastMarkedIsOperandType ==
    (/\ IsBroadcast(entry)
     /\ ast.generics.where_clause # None
     /\ Cardinality(MarkedPredicates) >= 2) =>
        \A j \in 1..Len(impls) :
            LET ty == OriginalPredicates[LastMarked].bounded_ty
            IN  /\ impls[j].trait_args = Some(Some(ty))
                /\ impls[j].other_ty = Some(ty)
                /\ \A i \in MarkedPredicates :
                      impls[j].where_clause[1][i].bounds =
                          Append(OriginalPredicates[i].bounds,
                                 OwnBound(j, OriginalPredicates[i].bounded_ty))

(***************************************************************************)
(* C15: in broadcast mode on a struct whose where-clause has no predicate  *)
(* carrying the Scalar marker, generation raises no error and completes    *)
(* with all 2n blocks, each with the operand-type position empty and with  *)
(* the where-clause of the declaration unchanged.                          *)
(***************************************************************************)
NoPredicateMarked ==
    /\ ast.generics.where_clause # None
    /\ \A i \in 1..Len(OriginalPredicates) :
          ~MarkerAnywhere(OriginalPredicates[i].bounds)

C15_NoMarkerLeavesOperandEmpty ==
    (IsBroadcast(entry) /\ NoPredicateMarked) =>
        /\ FieldBearing(ast) => pc # "aborted" /\ panic = None
        /\ pc = "done" => Len(output[1]) = 2 * Len(Ops(entry))
        /\ \A j \in 1..Len(impls) :
              /\ impls[j].trait_args = Some(None)
              /\ impls[j].other_ty = None
              /\ impls[j].where_clause = ast.generics.where_clause

\* a broadcast invocation has returned for a where-clause of unmarked predicates
C15_Witness ==
    /\ IsBroadcast(entry)
    /\ NoPredicateMarked
    /\ OriginalPredicates # <<>>
    /\ pc = "done"
    /\ output # None
    /\ Len(output[1]) = 2 * Len(Ops(entry))

(***************************************************************************)
(* C16: every invocation terminates: it eventually reaches a completed or  *)
(* an aborted state, after at most one pass per requested operator over    *)
(* the predicates and the fields.                                          *)
(***************************************************************************)
\* a pass is one turn of `for op in ops`; opi numbers the pass in progress
InPass == pc \in {"ass_where", "iter", "components", "push"}

PassesBounded ==
    /\ opi \in 1..(Len(Ops(entry)) + 1)
    /\ InPass => opi <= Len(Ops(entry))
    /\ Len(impls) = 2 * (opi - 1)
    /\ iter.pos <= Len(ast.data.fields)
    /\ Len(op) <= Len(ast.data.fields)
    /\ pc \in {"components", "push"} => Len(op) = iter.pos /\ Len(ass_op) <= Len(op)

C16_TerminatesWithinOperatorPasses ==
    /\ <>(pc \in Terminal)
    /\ []PassesBounded
    /\ [][opi' = opi \/ (pc = "push" /\ opi' = opi + 1)]_vars

\* an invocation has returned after its last pass over a struct with fields
C16_Witness ==
    /\ pc = "done"
    /\ opi = Len(Ops(entry)) + 1
    /\ ast.data.fields # <<>>
    /\ iter.pos = Len(ast.data.fields)

(***************************************************************************)
(* C17: on a declaration with no where-clause at all every entry point     *)
(* aborts while it processes the first operator and returns nothing, also  *)
(* for a well-formed struct with fields; generation completes only for     *)
(* declarations that carry a where-clause.                                 *)
(***************************************************************************)
C17_NoWhereClauseAborts ==
    /\ ast.generics.where_clause = None =>
          /\ pc \in {"start", "loop", "aborted"}
          /\ opi = 1
          /\ impls = <<>>
          /\ output = None
          /\ pc = "aborted" => panic = Some(UnwrapNone)
          /\ Alone(This).pc = "aborted"
    /\ pc = "done" => ast.generics.where_clause # None

\* a struct with fields and no where-clause has made its entry point panic
C17_Witness ==
    /\ ast.generics.where_clause = None
    /\ FieldBearing(ast)
    /\ ast.data.fields # <<>>
    /\ pc = "aborted"
    /\ panic = Some(UnwrapNone)
    /\ output = None

(***************************************************************************)
(* C18: a field is operated on exactly when it carries no op_override      *)
(* annotation.  An annotated field is overridden also when the argument of *)
(* the annotation is missing, malformed or no string literal (its          *)
(* replacement is then an error expression): its value entry is the        *)
(* replacement alone and no assignment statement names it.  Of several     *)
(* op_override annotations on a field only the first gives the replacement.*)
(***************************************************************************)
\* the declaration a, each field keeping of its op_override annotations the first
FirstOnly(a) ==
    [a EXCEPT !.data.fields =
        [k \in 1..Len(@) |->
            [@[k] EXCEPT !.attrs =
                SelectSeq(@, LAMBDA x :
                    x.path = "op_override" => x = FirstOverride(a.data.fields[k]))]]]

C18_OperateIffNotAnnotated ==
    /\ \A j \in ValueBlocks :
          /\ Len(impls[j].body) = Len(ast.data.fields)
          /\ \A k \in 1..Len(ast.data.fields) :
                LET e == impls[j].body[k]
                    first == FirstOverride(ast.data.fields[k])
                IN  /\ e.kind = "call" <=> k \in OperateFields
                    /\ k \in OverrideFields =>
                          /\ e.kind = "verbatim"
                          /\ e.args = <<>>
                          /\ e.tokens # None
                          /\ first.arg_kind # "str" =>
                                e.tokens[1].kind = "compile_error"
                          /\ (first.arg_kind = "str" /\ ~LexFails(first.text)) =>
                                e.tokens[1] = Tokens(first.text)
    /\ \A j \in AssBlocks :
          /\ Len(impls[j].body) = Cardinality(OperateFields)
          /\ \A s \in 1..Len(impls[j].body) :
                \A k \in OverrideFields :
                    StatementTarget(impls[j].body[s]) # DeclaredIdent(ast, k)
    /\ pc = "done" => output = Generated(entry, FirstOnly(ast))

\* fields annotated without a usable string literal, and one annotated twice
C18_Witness ==
    /\ pc = "done"
    /\ output # None /\ output[1] # <<>>
    /\ \E k \in OverrideFields :
          FirstOverride(ast.data.fields[k]).arg_kind \in {"bad", "lit", "expr"}
    /\ \E k \in OverrideFields :
          Cardinality({i \in 1..Len(ast.data.fields[k].attrs) :
                          ast.data.fields[k].attrs[i].path = "op_override"}) >= 2

(***************************************************************************)
(* C19: the returned blocks are ordered by operator in the fixed order of  *)
(* the family (BitAnd, BitOr, BitXor; Add, Sub, Mul, Div) and the value    *)
(* block of each operator is immediately followed by its assignment block: *)
(* counting from 0, block 2i is the value implementation and block 2i+1    *)
(* the assignment implementation of the i-th operator.                     *)
(***************************************************************************)
\* the traits implemented by the blocks of a family, in the order of the claim
ExpectedTraits ==
    IF entry \in {"bc_bitops", "cw_bitops"}
    THEN <<"BitAnd", "BitAndAssign", "BitOr", "BitOrAssign",
           "BitXor", "BitXorAssign">>
    ELSE <<"Add", "AddAssign", "Sub", "SubAssign",
           "Mul", "MulAssign", "Div", "DivAssign">>

C19_BlocksInOperatorOrder ==
    /\ Len(impls) <= Len(ExpectedTraits)
    /\ Len(impls) % 2 = 0
    /\ \A j \in 1..Len(impls) :
          /\ impls[j].trait = <<"std", "ops", ExpectedTraits[j]>>
          /\ impls[j].kind = IF j % 2 = 1 THEN "value" ELSE "assign"
          /\ j % 2 = 0 =>
                /\ impls[j].trait[3] = AssTraitIdent(impls[j - 1].trait[3])
                /\ impls[j].name = impls[j - 1].name
    /\ pc = "done" =>
          /\ output = Some(impls)
          /\ Len(impls) = Len(ExpectedTraits)

\* an entry point has returned the blocks of all its operators
C19_Witness ==
    /\ pc = "done"
    /\ output # None
    /\ Len(output[1]) = Len(ExpectedTraits)
    /\ output[1][Len(output[1])].kind = "assign"

====
